---------------------------- MODULE Spec2Model ----------------------------
(***************************************************************************)
(* A model of importers/c++/src/region_io.cpp: the loaders that rebuild a  *)
(* region tree, an image size and a run-length-encoded label array from    *)
(* matio values (matvar_t).                                                *)
(*                                                                         *)
(* A matvar_t is a record                                                  *)
(*   [data_type, data_size, nbytes, rank, dims, isComplex, data]           *)
(* data is a sequence of integers for a numeric array, a sequence of       *)
(* matvars for a cell array, and a function from the names of the fields   *)
(* that exist to matvars for a struct.  A thrown std::exception is the     *)
(* record Throw(what); a normal return is Return(value).                   *)
(***************************************************************************)
EXTENDS Integers, Sequences, FiniteSets, TLC

VARIABLES
    pc,            \* position of the entry point under way
    arg,           \* the arguments the entry point was called with
    result,        \* what the caller of the entry point receives
    stack,         \* load_region_node_from_cell_array: one frame per active call
    heap,          \* the arrays Mat_VarGetCellsLinear malloc'ed, in order of allocation
    exc,           \* the exception on its way up the call stack
    raised,        \* the exceptions thrown and rethrown so far, in order
    slic_indexes,  \* load_rle_data: the output valarray
    itter,         \* load_rle_data: the write cursor, as an offset from begin(slic_indexes)
    elid,          \* load_rle_data: the loop counter
    written,       \* load_rle_data: for each output position, the pairs that wrote it
    overrun        \* load_rle_data: the offsets written past the end of the valarray

vars == <<pc, arg, result, stack, heap, exc, raised, slic_indexes, itter, elid, written, overrun>>

----------------------------------------------------------------------------
(* Bounds of the model *)

\* longest numeric array drawn for a list_of_atomic_superpixels field
MaxListLen == 3
\* highest rank drawn for the argument of load_image_size
MaxRank == 3

----------------------------------------------------------------------------
(* matio values *)

NULL == [data_type |-> "NULL", data_size |-> 0, nbytes |-> 0, rank |-> 0,
         dims |-> <<>>, isComplex |-> FALSE, data |-> <<>>]

\* sizeof the element a data_type stores (a struct or cell stores matvar_t*)
DataSize(data_type) ==
    CASE data_type = "MAT_T_INT32"  -> 4
      [] data_type = "MAT_T_INT64"  -> 8
      [] data_type = "MAT_T_SINGLE" -> 4
      [] data_type = "MAT_T_DOUBLE" -> 8
      [] data_type = "MAT_T_UINT8"  -> 1
      [] data_type = "MAT_T_STRUCT" -> 8
      [] data_type = "MAT_T_CELL"   -> 8

\* a real or complex numeric array of the given dimensions
NumericVar(data_type, dims, isComplex, data) ==
    [data_type |-> data_type, data_size |-> DataSize(data_type),
     nbytes |-> Len(data) * DataSize(data_type), rank |-> Len(dims),
     dims |-> dims, isComplex |-> isComplex, data |-> data]

\* a real 1 x n numeric array
RowVar(data_type, data) == NumericVar(data_type, <<1, Len(data)>>, FALSE, data)

\* a 1 x 1 struct array with the given fields
StructVar(fields) ==
    [data_type |-> "MAT_T_STRUCT", data_size |-> DataSize("MAT_T_STRUCT"),
     nbytes |-> Cardinality(DOMAIN fields) * DataSize("MAT_T_STRUCT"),
     rank |-> 2, dims |-> <<1, 1>>, isComplex |-> FALSE, data |-> fields]

\* a 1 x n cell array of the given cells
CellVar(cells) ==
    [data_type |-> "MAT_T_CELL", data_size |-> DataSize("MAT_T_CELL"),
     nbytes |-> Len(cells) * DataSize("MAT_T_CELL"),
     rank |-> 2, dims |-> <<1, Len(cells)>>, isComplex |-> FALSE, data |-> cells]

Throw(what) == [threw |-> TRUE, what |-> what, value |-> <<>>]
Return(value) == [threw |-> FALSE, what |-> "", value |-> value]

\* no entry point has returned or thrown yet
NoResult == [threw |-> FALSE, what |-> "pending", value |-> <<>>]

----------------------------------------------------------------------------
(* get_struct_field *)

\* matio's lookup of a struct field by name: NULL when there is no such field
Mat_VarGetStructField(struct_array, name) ==
    IF struct_array.data_type = "MAT_T_STRUCT" /\ name \in DOMAIN struct_array.data
    THEN struct_array.data[name]
    ELSE NULL

get_struct_field_ignores_optional(struct_array, name, optional) ==
    LET out == Mat_VarGetStructField(struct_array, name) IN
    IF out = NULL \/ out.nbytes <= 0
    THEN Throw("Struct is missing expected element: " \o name)
    ELSE Return(out)

get_struct_field_keeps_empty(struct_array, name, optional) ==
    LET out == Mat_VarGetStructField(struct_array, name) IN
    IF out = NULL \/ (out.nbytes <= 0 /\ ~optional)
    THEN IF optional
         THEN Return(NULL)
         ELSE Throw("Struct is missing expected element: " \o name)
    ELSE Return(out)

get_struct_field(struct_array, name, optional) ==
    LET out == Mat_VarGetStructField(struct_array, name) IN
    IF out = NULL \/ out.nbytes <= 0
    THEN IF optional
         THEN Return(NULL)
         ELSE Throw("Struct is missing expected element: " \o name)
    ELSE Return(out)

----------------------------------------------------------------------------
(* load_region *)

\* an element copied into CompoundRegion::atomic_superpixels
StoreSuperpixel(v) == v

CopyList_reversed(data, n) == [k \in 1..n |-> StoreSuperpixel(data[n + 1 - k])]

\* std::copy of the first n elements of a buffer into atomic_superpixels
CopyList(data, n) == [k \in 1..n |-> StoreSuperpixel(data[k])]

load_region(struct_array) ==
    IF struct_array.data_type # "MAT_T_STRUCT"
    THEN Throw("cells should have struct array")
    ELSE LET field == get_struct_field(struct_array, "list_of_atomic_superpixels", FALSE) IN
         IF field.threw THEN field
         ELSE LET list_of_atomic_superpixels == field.value
                  number_of_atomic_superpixels ==
                      list_of_atomic_superpixels.nbytes \div list_of_atomic_superpixels.data_size
              IN  IF list_of_atomic_superpixels.data_type = "MAT_T_INT32"
                  THEN Return([atomic_superpixels |->
                          CopyList(list_of_atomic_superpixels.data, number_of_atomic_superpixels)])
                  ELSE IF list_of_atomic_superpixels.data_type = "MAT_T_INT64"
                  THEN Return([atomic_superpixels |->
                          CopyList(list_of_atomic_superpixels.data, number_of_atomic_superpixels)])
                  ELSE Throw("list_of_atomic_superpixels has unknown type")

----------------------------------------------------------------------------
(* load_image_size *)

\* a value assigned to a member of image_size
StoreImageDim(v) == v

load_image_size_swapped(image_shape) ==
    IF image_shape = NULL
    THEN Throw("File dose not include image_shape.")
    ELSE IF \/ image_shape.rank # 2
            \/ image_shape.isComplex
            \/ image_shape.dims[1] # 1
            \/ image_shape.dims[2] # 3
    THEN Throw("image_shape is invalid.  ")
    ELSE IF image_shape.data_type \in {"MAT_T_INT64", "MAT_T_INT32"}
    THEN Return([rows   |-> StoreImageDim(image_shape.data[2]),
                 cols   |-> StoreImageDim(image_shape.data[1]),
                 stride |-> StoreImageDim(image_shape.data[3])])
    ELSE Throw("image_shape has unknown type.")

load_image_size(image_shape) ==
    IF image_shape = NULL
    THEN Throw("File dose not include image_shape.")
    ELSE IF \/ image_shape.rank # 2
            \/ image_shape.isComplex
            \/ image_shape.dims[1] # 1
            \/ image_shape.dims[2] # 3
    THEN Throw("image_shape is invalid.  ")
    ELSE IF image_shape.data_type = "MAT_T_INT64"
    THEN Return([rows   |-> StoreImageDim(image_shape.data[1]),
                 cols   |-> StoreImageDim(image_shape.data[2]),
                 stride |-> StoreImageDim(image_shape.data[3])])
    ELSE IF image_shape.data_type = "MAT_T_INT32"
    THEN Return([rows   |-> StoreImageDim(image_shape.data[1]),
                 cols   |-> StoreImageDim(image_shape.data[2]),
                 stride |-> StoreImageDim(image_shape.data[3])])
    ELSE Throw("image_shape has unknown type.")

----------------------------------------------------------------------------
(* load_atomic_regions_from_rle and load_rle_data *)

\* longest run-length table drawn (dims[0] of atomic_SLIC_rle)
MaxPairs == 2
\* largest run-length drawn
MaxRun == 3
\* largest rows and cols drawn for the image_size argument
MaxSide == 2

\* A size_t is the number wraps * (SIZE_MAX + 1) + low.  Converting a signed T
\* to size_t keeps a non-negative value and adds SIZE_MAX + 1 to a negative one.
ToSizeT(v) == [wraps |-> IF v < 0 THEN 1 ELSE 0, low |-> v]

\* std::valarray<size_t>(n): n value-initialised elements
NewValarray(n) == [k \in 1..n |-> ToSizeT(0)]

\* the elements of atomic_SLIC_rle that one iteration of the loop reads
RunLength(data_array, number_of_ellements, i) == data_array[i + 1]

RunValue_row_major(data_array, number_of_ellements, i) == data_array[2 * i + 2]

RunValue(data_array, number_of_ellements, i) == data_array[number_of_ellements + i + 1]

\* where std::fill_n(first, count, value) returns: first when count <= 0
FillEnd_signed(first, count) == first + count

FillEnd(first, count) == IF count > 0 THEN first + count ELSE first

\* the offsets std::fill_n(first, count, value) assigns
FillRange(first, count) == {p \in first .. (first + count - 1) : count > 0}

\* the valarray after std::fill_n: offsets past its end are not elements of it
FillInto(array, first, count, value) ==
    [k \in 1..Len(array) |->
        IF (k - 1) \in FillRange(first, count) THEN ToSizeT(value) ELSE array[k]]

\* the process was ended by the memory error of an out-of-bounds write
Crashed == [threw |-> FALSE, what |-> "terminated", value |-> <<>>]

\* the checks of load_atomic_regions_from_rle: the exception it throws, or none
rle_argument_error(atomic_region_rle) ==
    IF atomic_region_rle = NULL
    THEN Throw("File does not include atomic_SLIC_rle")
    ELSE IF \/ atomic_region_rle.rank # 2
            \/ atomic_region_rle.isComplex
            \/ atomic_region_rle.dims[2] # 2
    THEN Throw("atomic_SLIC_rle is invalid.")
    ELSE IF atomic_region_rle.data_type = "MAT_T_INT64"
    THEN Return(<<>>)
    ELSE IF atomic_region_rle.data_type = "MAT_T_INT32"
    THEN Return(<<>>)
    ELSE Throw("atomic_SLIC_rle has unknown type.")

\* load_atomic_regions_from_rle up to the first iteration of load_rle_data
RleEnter ==
    /\ pc = "rle_start"
    /\ LET check == rle_argument_error(arg.atomic_region_rle) IN
       IF check.threw
       THEN /\ result' = check
            /\ pc' = "done"
            /\ UNCHANGED <<slic_indexes, written>>
       ELSE /\ slic_indexes' = NewValarray(arg.size.rows * arg.size.cols)
            /\ written' = [k \in 1..(arg.size.rows * arg.size.cols) |-> <<>>]
            /\ pc' = "rle_loop"
            /\ UNCHANGED result
    /\ itter' = 0
    /\ elid' = 0
    /\ UNCHANGED <<arg, stack, heap, exc, raised, overrun>>

\* one iteration of the loop of load_rle_data
RleFill ==
    /\ pc = "rle_loop"
    /\ elid < arg.atomic_region_rle.dims[1]
    /\ LET data_array == arg.atomic_region_rle.data
           number_of_ellements == arg.atomic_region_rle.dims[1]
           run_lenght == RunLength(data_array, number_of_ellements, elid)
           value == RunValue(data_array, number_of_ellements, elid)
           range == FillRange(itter, run_lenght)
       IN  /\ slic_indexes' = FillInto(slic_indexes, itter, run_lenght, value)
           /\ written' = [k \in 1..Len(written) |->
                            IF (k - 1) \in range THEN Append(written[k], elid)
                                                 ELSE written[k]]
           /\ overrun' = overrun \cup {p \in range : p >= Len(slic_indexes)}
           /\ itter' = FillEnd(itter, run_lenght)
           /\ elid' = elid + 1
           \* a write past the end of the valarray is undefined: the process
           \* is ended there, or the write lands in other memory and the loop goes on
           /\ \/ /\ pc' = "rle_loop"
                 /\ UNCHANGED result
              \/ /\ \E p \in range : p >= Len(slic_indexes)
                 /\ pc' = "done"
                 /\ result' = Crashed
    /\ UNCHANGED <<arg, stack, heap, exc, raised>>

\* the return of load_rle_data, which load_atomic_regions_from_rle returns
RleReturn ==
    /\ pc = "rle_loop"
    /\ elid >= arg.atomic_region_rle.dims[1]
    /\ result' = Return(slic_indexes)
    /\ pc' = "done"
    /\ UNCHANGED <<arg, stack, heap, exc, raised, slic_indexes, itter, elid, written, overrun>>

RunLengths == -1 .. MaxRun
RleValues == {-1, 7, 9}
RleTypes == {"MAT_T_INT32", "MAT_T_INT64"}

\* the n x 2 column-major tables: n run-lengths, then n values
RleTables(n) ==
    {runs \o values : runs \in [1..n -> RunLengths], values \in [1..n -> RleValues]}

RleArguments ==
    {NULL}
    \cup {NumericVar(t, <<Len(d) \div 2, 2>>, FALSE, d) :
            t \in RleTypes, d \in UNION {RleTables(n) : n \in 0..MaxPairs}}
    \cup {NumericVar(t, <<1, 2>>, FALSE, <<1, 7>>) : t \in {"MAT_T_DOUBLE", "MAT_T_UINT8"}}
    \cup {NumericVar(t, <<1, 2>>, TRUE, <<1, 7>>) : t \in RleTypes \cup {"MAT_T_DOUBLE"}}
    \cup {NumericVar(t, dims, FALSE, [k \in 1..2 |-> 7]) :
            t \in RleTypes \cup {"MAT_T_DOUBLE"}, dims \in {<<2>>, <<2, 1>>, <<1, 2, 1>>}}

ImageSizes ==
    {[rows |-> r, cols |-> c, stride |-> c] : r \in 1..MaxSide, c \in 1..MaxSide}

InitRle ==
    /\ pc = "rle_start"
    /\ arg \in {[atomic_region_rle |-> a, size |-> s] : a \in RleArguments, s \in ImageSizes}
    /\ result = NoResult
    /\ stack = <<>>
    /\ heap = <<>>
    /\ exc = NoResult
    /\ raised = <<>>
    /\ slic_indexes = <<>>
    /\ itter = 0
    /\ elid = 0
    /\ written = <<>>
    /\ overrun = {}

NextRle == RleEnter \/ RleFill \/ RleReturn

SpecRle == InitRle /\ [][NextRle]_vars

----------------------------------------------------------------------------
(* Arguments drawn for the loaders *)

FieldNames == {"list_of_atomic_superpixels", "scale", "children"}

\* superpixel identifiers drawn
Ids == {0, 5, 6}

\* the non-empty sequences over S of length at most n
SeqsUpTo(S, n) == UNION {[1..m -> S] : m \in 1..n}

\* a double is the float nearest to it plus the rest a float cannot hold
Double(single, rest) == [single |-> single, rest |-> rest]

\* a struct holding the fields that are not NULL
MakeStruct(list_of_atomic_superpixels, scale, children) ==
    LET field == [n \in FieldNames |->
                    CASE n = "list_of_atomic_superpixels" -> list_of_atomic_superpixels
                      [] n = "scale" -> scale
                      [] n = "children" -> children]
    IN  StructVar([n \in {m \in FieldNames : field[m] # NULL} |-> field[n]])

ListChoices ==
    {NULL, RowVar("MAT_T_INT32", <<>>), RowVar("MAT_T_DOUBLE", <<5>>),
     RowVar("MAT_T_UINT8", <<5, 6>>), RowVar("MAT_T_SINGLE", <<5>>)}
    \cup {RowVar(t, d) : t \in {"MAT_T_INT32", "MAT_T_INT64"}, d \in SeqsUpTo(Ids, MaxListLen)}

ScaleChoices ==
    {NULL, RowVar("MAT_T_DOUBLE", <<>>), RowVar("MAT_T_SINGLE", <<2>>),
     RowVar("MAT_T_DOUBLE", <<Double(3, 1)>>), RowVar("MAT_T_INT32", <<2>>)}

ChildrenChoices ==
    {NULL, CellVar(<<>>), RowVar("MAT_T_DOUBLE", <<1>>),
     CellVar(<<MakeStruct(RowVar("MAT_T_INT32", <<5>>), RowVar("MAT_T_SINGLE", <<2>>), NULL)>>)}

\* every variable but pc, arg and result is unused by the entry point under way
Idle ==
    /\ stack = <<>>
    /\ heap = <<>>
    /\ exc = NoResult
    /\ raised = <<>>
    /\ slic_indexes = <<>>
    /\ itter = 0
    /\ elid = 0
    /\ written = <<>>
    /\ overrun = {}

IdleVars == <<stack, heap, exc, raised, slic_indexes, itter, elid, written, overrun>>

----------------------------------------------------------------------------
(* A call of get_struct_field *)

InitField ==
    /\ pc = "field_start"
    /\ arg \in {[struct_array |-> MakeStruct(l, s, c), name |-> n, optional |-> o] :
                  l \in {x \in ListChoices : Len(x.data) <= 1}, s \in ScaleChoices,
                  c \in ChildrenChoices, n \in FieldNames \cup {"weight"}, o \in BOOLEAN}
    /\ result = NoResult
    /\ Idle

CallGetStructField ==
    /\ pc = "field_start"
    /\ result' = get_struct_field(arg.struct_array, arg.name, arg.optional)
    /\ pc' = "done"
    /\ UNCHANGED <<arg, IdleVars>>

NextField == CallGetStructField

SpecField == InitField /\ [][NextField]_vars

----------------------------------------------------------------------------
(* A call of load_region *)

InitRegion ==
    /\ pc = "region_start"
    /\ arg \in {MakeStruct(l, s, NULL) : l \in ListChoices, s \in {NULL, RowVar("MAT_T_SINGLE", <<2>>)}}
               \cup {RowVar("MAT_T_INT32", <<5>>), RowVar("MAT_T_INT64", <<5, 6>>),
                     CellVar(<<MakeStruct(RowVar("MAT_T_INT32", <<5>>), NULL, NULL)>>)}
    /\ result = NoResult
    /\ Idle

CallLoadRegion ==
    /\ pc = "region_start"
    /\ result' = load_region(arg)
    /\ pc' = "done"
    /\ UNCHANGED <<arg, IdleVars>>

NextRegion == CallLoadRegion

SpecRegion == InitRegion /\ [][NextRegion]_vars

----------------------------------------------------------------------------
(* A call of load_image_size *)

\* the sizes a dimension of the image_shape argument is drawn from
DimChoices == {1, 2, 3}
\* the values an element of the image_shape argument is drawn from
ShapeValues == {0, 10, 20, 30}

RECURSIVE Product(_)
Product(dims) == IF dims = <<>> THEN 1 ELSE Head(dims) * Product(Tail(dims))

\* the data of an array of n elements: every choice for three elements, one otherwise
ShapeData(n) == IF n = 3 THEN [1..3 -> ShapeValues] ELSE {[k \in 1..n |-> 10 * k]}

ShapeArguments ==
    {NULL} \cup
    {NumericVar(t, dims, c, d) :
        t \in {"MAT_T_INT32", "MAT_T_INT64", "MAT_T_DOUBLE", "MAT_T_UINT8"},
        dims \in {<<1, 3>>}, c \in BOOLEAN, d \in ShapeData(3)} \cup
    UNION {{NumericVar(t, dims, c, d) : d \in ShapeData(Product(dims))} :
        t \in {"MAT_T_INT32", "MAT_T_INT64", "MAT_T_DOUBLE"},
        dims \in UNION {[1..r -> DimChoices] : r \in 1..MaxRank}, c \in BOOLEAN}

InitShape ==
    /\ pc = "shape_start"
    /\ arg \in ShapeArguments
    /\ result = NoResult
    /\ Idle

CallLoadImageSize ==
    /\ pc = "shape_start"
    /\ result' = load_image_size(arg)
    /\ pc' = "done"
    /\ UNCHANGED <<arg, IdleVars>>

NextShape == CallLoadImageSize

SpecShape == InitShape /\ [][NextShape]_vars

----------------------------------------------------------------------------
(* load_region_node_from_cell_array *)

\* most cells drawn for one serialized tree
MaxNodes == 3
\* most cells of one tree that deviate from a well-formed node
MaxDeviations == 2

get_total_element_count(arry) == Product(arry.dims)

\* matio's malloc'ed array of the cells start, start + stride, ... of a cell array
Mat_VarGetCellsLinear(cell_array, start, stride, edge) ==
    [k \in 1..edge |-> cell_array.data[start + (k - 1) * stride + 1]]

\* (float) of a double
NarrowToFloat(d) == d.single

\* a null HierarchicalRegionPtr
NullPtr == [null |-> TRUE, atomic_superpixels |-> <<>>, scale |-> 0, children_node |-> <<>>]

\* a HierarchicalRegionPtr to a region with no children
NewRegion(atomic_superpixels, scale) ==
    [null |-> FALSE, atomic_superpixels |-> atomic_superpixels, scale |-> scale,
     children_node |-> <<>>]

\* the first check of the loader: the exception it throws, or none
tree_argument_error(cell_array) ==
    IF cell_array.data_type # "MAT_T_CELL" \/ cell_array.nbytes < 1
    THEN Throw("Invalid tree data structure")
    ELSE Return(<<>>)

\* the body of the loop up to the lookup of children: the region of one cell
load_node(cell) ==
    LET region == load_region(cell) IN
    IF region.threw THEN region
    ELSE LET field == get_struct_field(cell, "scale", FALSE) IN
         IF field.threw THEN field
         ELSE LET scale == field.value IN
              IF scale.data_type = "MAT_T_SINGLE"
              THEN Return(NewRegion(region.value.atomic_superpixels, scale.data[1]))
              ELSE IF scale.data_type = "MAT_T_DOUBLE"
              THEN Return(NewRegion(region.value.atomic_superpixels,
                                    NarrowToFloat(scale.data[1])))
              ELSE Throw("Scale has unknown type")

\* malloc of an array of cell handles: a new entry of the heap
Malloc(h, cells) == Append(h, [cells |-> cells, frees |-> 0, late_reads |-> 0])

\* free(all_cells)
Free(h, all_cells) == [h EXCEPT ![all_cells].frees = @ + 1]

\* the heap after a read of an element of all_cells
ReadCells(h, all_cells) ==
    IF h[all_cells].frees > 0
    THEN [h EXCEPT ![all_cells].late_reads = @ + 1]
    ELSE h

\* the frame of a call that passed its first check and allocated all_cells
NewFrame(cell_array, all_cells) ==
    [cell_array |-> cell_array,
     number_of_cells |-> get_total_element_count(cell_array),
     all_cells |-> all_cells,
     i |-> 0,
     output |-> [k \in 1..get_total_element_count(cell_array) |-> NullPtr]]

\* the cells a call reads through all_cells
CellsOf(cell_array) ==
    Mat_VarGetCellsLinear(cell_array, 0, 1, get_total_element_count(cell_array))

CatchFree_missing(h, all_cells) == h

\* free(all_cells) in the catch block
CatchFree(h, all_cells) == Free(h, all_cells)

\* free(all_cells) before the return
ReturnFree(h, all_cells) == Free(h, all_cells)

Rethrow_other(e) == Throw("Invalid tree data structure")

\* throw; in the catch block
Rethrow(e) == e

AttachChildren_first(output, i, children_node) ==
    [output EXCEPT ![1].children_node = children_node]

\* output[i]->children_node = the value the recursive call returned
AttachChildren(output, i, children_node) ==
    [output EXCEPT ![i + 1].children_node = children_node]

Top == stack[Len(stack)]
Pop(s) == SubSeq(s, 1, Len(s) - 1)

\* the top-level call, up to the first iteration of its loop
TreeEnter ==
    /\ pc = "tree_start"
    /\ LET check == tree_argument_error(arg) IN
       IF check.threw
       THEN /\ result' = check
            /\ raised' = Append(raised, check)
            /\ pc' = "done"
            /\ UNCHANGED <<stack, heap>>
       ELSE /\ heap' = Malloc(heap, CellsOf(arg))
            /\ stack' = <<NewFrame(arg, Len(heap) + 1)>>
            /\ pc' = "tree_loop"
            /\ UNCHANGED <<result, raised>>
    /\ UNCHANGED <<arg, exc, slic_indexes, itter, elid, written, overrun>>

\* one iteration of the loop of the innermost call: to its end, to the throw
\* that leaves it, or into the recursive call up to that call's first iteration
TreeCell ==
    /\ pc = "tree_loop"
    /\ Top.i < Top.number_of_cells
    /\ LET cell == heap[Top.all_cells].cells[Top.i + 1]
           read == ReadCells(heap, Top.all_cells)
           node == load_node(cell)
           children == get_struct_field(cell, "children", TRUE).value
           check == tree_argument_error(children)
       IN  IF node.threw
           THEN /\ exc' = node
                /\ raised' = Append(raised, node)
                /\ pc' = "tree_unwind"
                /\ heap' = read
                /\ UNCHANGED stack
           ELSE IF children = NULL
           THEN /\ stack' = [stack EXCEPT ![Len(stack)].output[Top.i + 1] = node.value,
                                          ![Len(stack)].i = @ + 1]
                /\ heap' = read
                /\ UNCHANGED <<exc, raised, pc>>
           ELSE IF check.threw
           THEN /\ stack' = [stack EXCEPT ![Len(stack)].output[Top.i + 1] = node.value]
                /\ exc' = check
                /\ raised' = Append(raised, check)
                /\ pc' = "tree_unwind"
                /\ heap' = read
           ELSE /\ stack' = Append(
                       [stack EXCEPT ![Len(stack)].output[Top.i + 1] = node.value],
                       NewFrame(children, Len(heap) + 1))
                /\ heap' = Malloc(read, CellsOf(children))
                /\ UNCHANGED <<exc, raised, pc>>
    /\ UNCHANGED <<arg, result, slic_indexes, itter, elid, written, overrun>>

\* the innermost call leaves its loop, frees all_cells and returns output
TreeReturn ==
    /\ pc = "tree_loop"
    /\ Top.i >= Top.number_of_cells
    /\ heap' = ReturnFree(heap, Top.all_cells)
    /\ IF Len(stack) = 1
       THEN /\ result' = Return(Top.output)
            /\ stack' = <<>>
            /\ pc' = "done"
       ELSE /\ stack' = [Pop(stack) EXCEPT
                           ![Len(stack) - 1].output =
                               AttachChildren(@, stack[Len(stack) - 1].i, Top.output),
                           ![Len(stack) - 1].i = @ + 1]
            /\ UNCHANGED <<result, pc>>
    /\ UNCHANGED <<arg, exc, raised, slic_indexes, itter, elid, written, overrun>>

\* the catch block of the innermost call: free(all_cells); throw;
TreeUnwind ==
    /\ pc = "tree_unwind"
    /\ heap' = CatchFree(heap, Top.all_cells)
    /\ stack' = Pop(stack)
    /\ raised' = Append(raised, Rethrow(exc))
    /\ IF Len(stack) = 1
       THEN /\ result' = Rethrow(exc)
            /\ exc' = NoResult
            /\ pc' = "done"
       ELSE /\ exc' = Rethrow(exc)
            /\ UNCHANGED <<result, pc>>
    /\ UNCHANGED <<arg, slic_indexes, itter, elid, written, overrun>>

\* what a drawn cell deviates by from a well-formed node
CellDeviations ==
    {"not_struct", "no_list", "empty_list", "list_type", "no_scale", "empty_scale",
     "scale_type"}
LeafDeviations == {"empty_children", "children_type"}

\* the fields of the well-formed node number id: the width of its list and of
\* its scale alternate with id
ListOf(id) ==
    IF id % 2 = 1 THEN RowVar("MAT_T_INT32", <<id>>) ELSE RowVar("MAT_T_INT64", <<id, 0>>)
ScaleOf(id) ==
    IF id % 2 = 1 THEN RowVar("MAT_T_SINGLE", <<id>>)
                  ELSE RowVar("MAT_T_DOUBLE", <<Double(id, 1)>>)

\* the cell number id with the given cells below it (none: no children field)
DrawnCell(id, deviation, below) ==
    LET children == IF below = <<>> THEN NULL ELSE CellVar(below) IN
    CASE deviation = "none" -> MakeStruct(ListOf(id), ScaleOf(id), children)
      [] deviation = "not_struct" -> RowVar("MAT_T_DOUBLE", <<Double(id, 0)>>)
      [] deviation = "no_list" -> MakeStruct(NULL, ScaleOf(id), children)
      [] deviation = "empty_list" ->
            MakeStruct(RowVar("MAT_T_INT32", <<>>), ScaleOf(id), children)
      [] deviation = "list_type" ->
            MakeStruct(RowVar("MAT_T_DOUBLE", <<Double(id, 0)>>), ScaleOf(id), children)
      [] deviation = "no_scale" -> MakeStruct(ListOf(id), NULL, children)
      [] deviation = "empty_scale" ->
            MakeStruct(ListOf(id), RowVar("MAT_T_DOUBLE", <<>>), children)
      [] deviation = "scale_type" ->
            MakeStruct(ListOf(id), RowVar("MAT_T_INT32", <<id>>), children)
      [] deviation = "empty_children" -> MakeStruct(ListOf(id), ScaleOf(id), CellVar(<<>>))
      [] deviation = "children_type" ->
            MakeStruct(ListOf(id), ScaleOf(id), RowVar("MAT_T_DOUBLE", <<Double(id, 0)>>))

\* The shape of a drawn tree of n cells: the cells are numbered 1..n in the
\* order the loader visits them and parent[id] is the cell above id, 0 for a
\* cell of the top-level sequence.
RECURSIVE AboveOrSelf(_, _)
AboveOrSelf(parent, id) ==
    IF id = 0 THEN {0} ELSE {id} \cup AboveOrSelf(parent, parent[id])

DrawnShapes(n) ==
    {parent \in [1..n -> 0..(n - 1)] :
        \A id \in 1..n : IF id = 1 THEN parent[id] = 0
                                   ELSE parent[id] \in AboveOrSelf(parent, id - 1)}

RECURSIVE Ascending(_)
Ascending(S) ==
    IF S = {} THEN <<>>
    ELSE LET least == CHOOSE x \in S : \A y \in S : x <= y
         IN  <<least>> \o Ascending(S \ {least})

Below(parent, id) == Ascending({c \in DOMAIN parent : parent[c] = id})

\* the deviations of the cells in the set D fit the shape: a cell that has
\* cells below it is a struct with a children field that is a cell array
DrawnDeviations(parent, D) ==
    {deviation \in [D -> CellDeviations \cup LeafDeviations] :
        \A id \in D : deviation[id] \in LeafDeviations \cup {"not_struct"}
                        => Below(parent, id) = <<>>}

\* the cells below cell id (below 0: the top-level sequence)
RECURSIVE DrawnForest(_, _, _)
DrawnForest(parent, deviation, id) ==
    LET below == Below(parent, id) IN
    [k \in 1..Len(below) |->
        DrawnCell(below[k],
                  IF below[k] \in DOMAIN deviation THEN deviation[below[k]] ELSE "none",
                  DrawnForest(parent, deviation, below[k]))]

InitTree ==
    /\ pc = "tree_start"
    /\ \/ \E n \in 0..MaxNodes :
            \E parent \in DrawnShapes(n) :
              \E D \in {S \in SUBSET (1..n) : Cardinality(S) <= MaxDeviations} :
                \E deviation \in DrawnDeviations(parent, D) :
                    arg = CellVar(DrawnForest(parent, deviation, 0))
       \/ arg \in {RowVar("MAT_T_DOUBLE", <<Double(1, 0)>>),
                   MakeStruct(ListOf(1), ScaleOf(1), NULL)}
    /\ result = NoResult
    /\ Idle

NextTree == TreeEnter \/ TreeCell \/ TreeReturn \/ TreeUnwind

SpecTree == InitTree /\ [][NextTree]_vars

----------------------------------------------------------------------------
(* The error taxonomy of the specification, by the message thrown *)

MissingFieldMessage(name) == "Struct is missing expected element: " \o name

ErrorKind(what) ==
    CASE what \in {MissingFieldMessage(n) : n \in FieldNames \cup {"weight"}}
            -> "MissingFieldError"
      [] what \in {"File dose not include image_shape.",
                   "File does not include atomic_SLIC_rle"}
            -> "MissingFieldError"
      [] what \in {"cells should have struct array", "Invalid tree data structure",
                   "image_shape is invalid.  ", "atomic_SLIC_rle is invalid."}
            -> "InvalidShapeError"
      [] what \in {"list_of_atomic_superpixels has unknown type", "Scale has unknown type",
                   "image_shape has unknown type.", "atomic_SLIC_rle has unknown type."}
            -> "UnsupportedTypeError"
      [] OTHER -> "none"

\* the struct has a field of that name holding at least one element
HasField(struct_array, name) ==
    /\ name \in DOMAIN struct_array.data
    /\ Len(struct_array.data[name].data) >= 1

----------------------------------------------------------------------------
(* Claims about get_struct_field, checked under SpecField *)

\* C9: get_struct_field on a record whose named field is absent or empty
\* fails with MissingFieldError carrying the field's name when optional is
\* false and returns the absent indicator (NULL) without failing when optional
\* is true; a field that is present and non-empty is returned in both modes.
C9_FieldLookup ==
    pc = "done" =>
        IF HasField(arg.struct_array, arg.name)
        THEN result = Return(arg.struct_array.data[arg.name])
        ELSE IF arg.optional
        THEN result = Return(NULL)
        ELSE /\ result.threw
             /\ ErrorKind(result.what) = "MissingFieldError"
             /\ result.what = MissingFieldMessage(arg.name)

\* an empty scale field looked up as a required field
C9_Witness ==
    /\ pc = "done"
    /\ arg.name = "scale"
    /\ "scale" \in DOMAIN arg.struct_array.data
    /\ ~HasField(arg.struct_array, "scale")
    /\ ~arg.optional
    /\ result = Throw(MissingFieldMessage("scale"))

----------------------------------------------------------------------------
(* Claims about load_region, checked under SpecRegion *)

\* C8: a record whose list_of_atomic_superpixels holds N >= 1 elements of
\* type int32 or int64 loads as a region of exactly N = nbytes / data_size
\* elements, element k equal to source element k; a value that is not a record
\* fails with InvalidShapeError; a list of any other element type fails with
\* UnsupportedTypeError.
C8_RegionMembership ==
    pc = "done" =>
        IF arg.data_type # "MAT_T_STRUCT"
        THEN result.threw /\ ErrorKind(result.what) = "InvalidShapeError"
        ELSE HasField(arg, "list_of_atomic_superpixels") =>
             LET list == arg.data["list_of_atomic_superpixels"] IN
             IF list.data_type \in {"MAT_T_INT32", "MAT_T_INT64"}
             THEN /\ ~result.threw
                  /\ Len(result.value.atomic_superpixels) = Len(list.data)
                  /\ Len(result.value.atomic_superpixels) = list.nbytes \div list.data_size
                  /\ \A k \in 1..Len(list.data) :
                        result.value.atomic_superpixels[k] = list.data[k]
             ELSE result.threw /\ ErrorKind(result.what) = "UnsupportedTypeError"

\* an unsorted int64 list with a repeated identifier, loaded as it is
C8_Witness ==
    /\ pc = "done"
    /\ arg.data_type = "MAT_T_STRUCT"
    /\ HasField(arg, "list_of_atomic_superpixels")
    /\ arg.data["list_of_atomic_superpixels"].data_type = "MAT_T_INT64"
    /\ arg.data["list_of_atomic_superpixels"].data = <<6, 5, 6>>
    /\ result = Return([atomic_superpixels |-> <<6, 5, 6>>])

----------------------------------------------------------------------------
(* Claims about load_image_size, checked under SpecShape *)

\* C6: load_image_size succeeds exactly when its input has rank 2, dimensions
\* [1, 3], is not complex and has element type int32 or int64, and then rows,
\* cols, stride are elements 0, 1, 2 of the data; a deviation in rank,
\* dimensions or complexity fails with InvalidShapeError whatever the element
\* type, a well-shaped input of another element type fails with
\* UnsupportedTypeError, and a failure produces no image_size.
C6_ImageSize ==
    (pc = "done" /\ arg # NULL) =>
        LET shaped == arg.rank = 2 /\ arg.dims = <<1, 3>> /\ ~arg.isComplex
            typed == arg.data_type \in {"MAT_T_INT32", "MAT_T_INT64"}
        IN  /\ ~result.threw <=> (shaped /\ typed)
            /\ (shaped /\ typed) =>
                    result.value = [rows |-> arg.data[1], cols |-> arg.data[2],
                                    stride |-> arg.data[3]]
            /\ ~shaped => result.threw /\ ErrorKind(result.what) = "InvalidShapeError"
            /\ (shaped /\ ~typed) =>
                    result.threw /\ ErrorKind(result.what) = "UnsupportedTypeError"
            /\ result.threw => result.value = <<>>

\* the int32 array [10, 20, 30] of dimensions [1, 3]
C6_Witness ==
    /\ pc = "done"
    /\ arg # NULL
    /\ arg.data_type = "MAT_T_INT32"
    /\ arg.dims = <<1, 3>>
    /\ ~arg.isComplex
    /\ arg.data = <<10, 20, 30>>
    /\ result = Return([rows |-> 10, cols |-> 20, stride |-> 30])

----------------------------------------------------------------------------
(* Claims about load_atomic_regions_from_rle, checked under SpecRle *)

\* the argument is an N x 2 real table of int32 or int64
IsRleTable(atomic_region_rle) ==
    /\ atomic_region_rle # NULL
    /\ atomic_region_rle.rank = 2
    /\ atomic_region_rle.dims[2] = 2
    /\ ~atomic_region_rle.isComplex
    /\ atomic_region_rle.data_type \in {"MAT_T_INT32", "MAT_T_INT64"}

\* run-length and value of pair i (from 0) of a table: elements i and N + i
PairRun(table, i) == table.data[i + 1]
PairValue(table, i) == table.data[table.dims[1] + i + 1]

\* the sequence the pairs i, i + 1, ... of a table stand for
RECURSIVE Decoded(_, _)
Decoded(table, i) ==
    IF i >= table.dims[1] THEN <<>>
    ELSE [k \in 1..PairRun(table, i) |-> PairValue(table, i)] \o Decoded(table, i + 1)

RECURSIVE SumOfRuns(_, _)
SumOfRuns(table, i) ==
    IF i >= table.dims[1] THEN 0 ELSE PairRun(table, i) + SumOfRuns(table, i + 1)

\* a table of non-negative run-lengths whose sum fits the image
FitsImage(a) ==
    /\ IsRleTable(a.atomic_region_rle)
    /\ \A i \in 0..(a.atomic_region_rle.dims[1] - 1) : PairRun(a.atomic_region_rle, i) >= 0
    /\ SumOfRuns(a.atomic_region_rle, 0) <= a.size.rows * a.size.cols

\* the size_t x is the number v
IsNumber(x, v) == x.wraps = 0 /\ x.low = v

\* the size_t x is the number v + SIZE_MAX + 1
IsWrapped(x, v) == x.wraps = 1 /\ x.low = v

\* C1 as stated: for every table of N pairs with non-negative run-lengths of
\* sum S <= rows*cols the returned array has length rows*cols, its first S
\* positions are the run_length[i] copies of value[i] in source order, and its
\* other positions hold 0.
C1_DecodedValues ==
    (pc = "done" /\ FitsImage(arg)) =>
        LET decoded == Decoded(arg.atomic_region_rle, 0) IN
        /\ ~result.threw
        /\ Len(result.value) = arg.size.rows * arg.size.cols
        /\ \A k \in 1..Len(result.value) :
              IF k <= Len(decoded) THEN IsNumber(result.value[k], decoded[k])
                                   ELSE IsNumber(result.value[k], 0)

\* C1 as amended: the same, but the copies of value[i] are value[i] converted
\* to size_t: value[i] when it is not negative, value[i] + SIZE_MAX + 1 when
\* it is negative.
C1_DecodedAsSizeT ==
    (pc = "done" /\ FitsImage(arg)) =>
        LET decoded == Decoded(arg.atomic_region_rle, 0) IN
        /\ ~result.threw
        /\ result.what # "terminated"
        /\ Len(result.value) = arg.size.rows * arg.size.cols
        /\ \A k \in 1..Len(result.value) :
              IF k <= Len(decoded)
              THEN IF decoded[k] >= 0 THEN IsNumber(result.value[k], decoded[k])
                                      ELSE IsWrapped(result.value[k], decoded[k])
              ELSE IsNumber(result.value[k], 0)

\* two runs, the first of a negative value, that leave the last position unwritten
C1_Witness ==
    /\ pc = "done"
    /\ FitsImage(arg)
    /\ arg.atomic_region_rle.dims[1] = 2
    /\ PairRun(arg.atomic_region_rle, 0) = 1
    /\ PairValue(arg.atomic_region_rle, 0) = -1
    /\ PairRun(arg.atomic_region_rle, 1) = 2
    /\ PairValue(arg.atomic_region_rle, 1) = 7
    /\ arg.size.rows * arg.size.cols = 4
    /\ Len(result.value) = 4
    /\ IsWrapped(result.value[1], -1)
    /\ IsNumber(result.value[2], 7)
    /\ IsNumber(result.value[3], 7)
    /\ IsNumber(result.value[4], 0)

\* C2: load_atomic_regions_from_rle never writes an output position at index
\* >= rows*cols; when the sum of the run-lengths exceeds rows*cols the decode
\* fails with RleOverrunError and returns no array.
C2_NoOverrun ==
    /\ overrun = {}
    /\ (/\ pc = "done"
        /\ IsRleTable(arg.atomic_region_rle)
        /\ \A i \in 0..(arg.atomic_region_rle.dims[1] - 1) :
              PairRun(arg.atomic_region_rle, i) >= 0
        /\ SumOfRuns(arg.atomic_region_rle, 0) > arg.size.rows * arg.size.cols)
       => (result.threw /\ result.what = "RleOverrunError" /\ result.value = <<>>)

\* C10: in load_rle_data the write cursor never moves backward, a pair whose
\* run-length is zero or negative writes nothing and leaves the cursor where
\* it was, and a position of the output written by one pair is never written
\* again by a later pair.
C10_CursorForward ==
    [][pc = "rle_loop" =>
         /\ itter' >= itter
         /\ (elid' = elid + 1 /\ PairRun(arg.atomic_region_rle, elid) <= 0) =>
                /\ itter' = itter
                /\ slic_indexes' = slic_indexes
                /\ written' = written
                /\ overrun' = overrun
         /\ \A k \in 1..Len(written) :
                /\ Len(written'[k]) <= 1
                /\ written[k] # <<>> => slic_indexes'[k] = slic_indexes[k]
         /\ overrun \subseteq overrun'
         /\ \A p \in overrun' \ overrun : p >= itter
      ]_vars

\* a run of two, then a negative run that left the cursor and the output alone
C10_Witness ==
    /\ pc = "rle_loop"
    /\ elid = 2
    /\ PairRun(arg.atomic_region_rle, 0) = 2
    /\ PairRun(arg.atomic_region_rle, 1) = -1
    /\ PairValue(arg.atomic_region_rle, 0) = 7
    /\ PairValue(arg.atomic_region_rle, 1) = 9
    /\ itter = 2
    /\ Len(slic_indexes) = 4
    /\ written = <<(<<0>>), (<<0>>), <<>>, <<>>>>
    /\ \A k \in 1..2 : IsNumber(slic_indexes[k], 7)

----------------------------------------------------------------------------
(* Claims about load_region_node_from_cell_array, checked under SpecTree *)

\* the cell is a record with a valid list_of_atomic_superpixels and scale
IsNodeRecord(cell) ==
    /\ cell.data_type = "MAT_T_STRUCT"
    /\ HasField(cell, "list_of_atomic_superpixels")
    /\ cell.data["list_of_atomic_superpixels"].data_type \in {"MAT_T_INT32", "MAT_T_INT64"}
    /\ HasField(cell, "scale")
    /\ cell.data["scale"].data_type \in {"MAT_T_SINGLE", "MAT_T_DOUBLE"}

\* well-formed: every level, from this one down, is a non-empty cell sequence
\* of such records
RECURSIVE WellFormed(_)
WellFormed(cell_array) ==
    /\ cell_array.data_type = "MAT_T_CELL"
    /\ Len(cell_array.data) >= 1
    /\ \A i \in 1..Len(cell_array.data) :
          /\ IsNodeRecord(cell_array.data[i])
          /\ "children" \in DOMAIN cell_array.data[i].data
                => WellFormed(cell_array.data[i].data["children"])

\* the nodes have the shape of the serialized level: node i is built from
\* cell i and has as many children as that cell, none if it has no children field
RECURSIVE SameShape(_, _)
SameShape(cell_array, nodes) ==
    /\ Len(nodes) = Len(cell_array.data)
    /\ \A i \in 1..Len(nodes) :
          /\ ~nodes[i].null
          /\ nodes[i].atomic_superpixels =
                cell_array.data[i].data["list_of_atomic_superpixels"].data
          /\ IF "children" \in DOMAIN cell_array.data[i].data
             THEN SameShape(cell_array.data[i].data["children"], nodes[i].children_node)
             ELSE Len(nodes[i].children_node) = 0

\* C3: a well-formed serialized tree loads as a tree of the same shape: at
\* every level as many nodes as cells, node i built from cell i, and each
\* node's children as long as the cell's children sequence, or empty when the
\* cell has no children field.
C3_SameShape ==
    (pc = "done" /\ WellFormed(arg)) => (~result.threw /\ SameShape(arg, result.value))

\* two siblings, the second with one child
C3_Witness ==
    /\ pc = "done"
    /\ WellFormed(arg)
    /\ Len(arg.data) = 2
    /\ "children" \notin DOMAIN arg.data[1].data
    /\ "children" \in DOMAIN arg.data[2].data
    /\ ~result.threw
    /\ Len(result.value) = 2
    /\ result.value[1].atomic_superpixels = <<1>>
    /\ result.value[2].atomic_superpixels = <<2, 0>>
    /\ Len(result.value[2].children_node) = 1
    /\ result.value[2].children_node[1].atomic_superpixels = <<3>>

\* C4: when a check fails at any node at any depth, the top-level call returns
\* no tree, not even the siblings and subtrees already built, and its caller
\* receives the exception thrown where the failure was detected, unchanged by
\* every level of the recursion it passed through.
C4_ErrorUnchanged ==
    pc = "done" =>
        /\ result.threw <=> raised # <<>>
        /\ raised # <<>> =>
              /\ result = raised[1]
              /\ \A k \in 1..Len(raised) : raised[k] = raised[1]
              /\ ErrorKind(result.what) # "none"
              /\ result.value = <<>>
              /\ stack = <<>>
              /\ exc = NoResult

\* the first sibling was built, and the exception thrown for the child of the
\* second passed through the catch blocks of two calls
C4_Witness ==
    /\ pc = "done"
    /\ arg.data_type = "MAT_T_CELL"
    /\ Len(arg.data) = 2
    /\ IsNodeRecord(arg.data[1])
    /\ "children" \notin DOMAIN arg.data[1].data
    /\ Len(raised) = 3
    /\ Len(heap) = 2
    /\ result = Throw("Scale has unknown type")

\* C5: at every level of the recursion the array all_cells of that call is
\* released exactly once on every exit path of the call (normal return, a
\* failed check on a sibling, an exception out of a recursive call): it is
\* never left unreleased when the call has exited, never released twice and
\* never read after its release.
C5_ReleasedOnce ==
    /\ \A a \in 1..Len(heap) :
          /\ heap[a].frees <= 1
          /\ heap[a].late_reads = 0
          /\ heap[a].frees = 0 <=> \E f \in 1..Len(stack) : stack[f].all_cells = a
    /\ \A f \in 1..Len(stack) : stack[f].all_cells \in 1..Len(heap)
    /\ pc = "done" => \A a \in 1..Len(heap) : heap[a].frees = 1

\* three nested calls left by an exception thrown in the innermost
C5_Witness ==
    /\ pc = "done"
    /\ Len(heap) = 3
    /\ \A a \in 1..3 : heap[a].frees = 1
    /\ result.threw
    /\ Len(raised) = 4

\* some cell of the tree has a children field that holds no element
RECURSIVE HasEmptyChildren(_)
HasEmptyChildren(cell_array) ==
    \E i \in 1..Len(cell_array.data) :
        /\ cell_array.data[i].data_type = "MAT_T_STRUCT"
        /\ "children" \in DOMAIN cell_array.data[i].data
        /\ cell_array.data[i].data["children"].data_type = "MAT_T_CELL"
        /\ \/ Len(cell_array.data[i].data["children"].data) = 0
           \/ HasEmptyChildren(cell_array.data[i].data["children"])

\* the tree with every children field that holds no element removed
RECURSIVE WithoutEmptyChildren(_)
WithoutEmptyChildren(cell_array) ==
    CellVar([i \in 1..Len(cell_array.data) |->
        LET cell == cell_array.data[i]
            kept == IF cell.data_type # "MAT_T_STRUCT" THEN {}
                    ELSE {n \in DOMAIN cell.data :
                            n = "children" /\ cell.data[n].data_type = "MAT_T_CELL"
                                => Len(cell.data[n].data) >= 1}
        IN  IF cell.data_type # "MAT_T_STRUCT" THEN cell
            ELSE StructVar([n \in kept |->
                    IF n = "children" /\ cell.data[n].data_type = "MAT_T_CELL"
                    THEN WithoutEmptyChildren(cell.data[n])
                    ELSE cell.data[n]])])

\* the tree a well-formed serialized level stands for
RECURSIVE TreeOf(_)
TreeOf(cell_array) ==
    [i \in 1..Len(cell_array.data) |->
        LET cell == cell_array.data[i]
            scale == cell.data["scale"]
        IN  [null |-> FALSE,
             atomic_superpixels |-> cell.data["list_of_atomic_superpixels"].data,
             scale |-> IF scale.data_type = "MAT_T_SINGLE" THEN scale.data[1]
                                                         ELSE scale.data[1].single,
             children_node |-> IF "children" \in DOMAIN cell.data
                               THEN TreeOf(cell.data["children"])
                               ELSE <<>>]]

\* the top-level sequence has cells and is well-formed but for children fields
\* that hold no element
WellFormedButEmptyChildren(cell_array) ==
    /\ cell_array.data_type = "MAT_T_CELL"
    /\ Len(cell_array.data) >= 1
    /\ WellFormed(WithoutEmptyChildren(cell_array))

\* C7 as stated: a node whose children field is present but empty does not
\* load as a leaf: the field is passed to the recursive loader, which rejects
\* the sequence of zero elements with InvalidShapeError.
C7_EmptyChildrenRejected ==
    (pc = "done" /\ WellFormedButEmptyChildren(arg) /\ HasEmptyChildren(arg)) =>
        (result.threw /\ ErrorKind(result.what) = "InvalidShapeError")

\* C7 as amended: a node whose children field is present but holds no element
\* loads as a leaf, exactly as if it had no children field; only a children
\* field that holds at least one element is passed to the recursive loader,
\* and a sequence of zero elements is rejected with InvalidShapeError only as
\* the argument of the top-level call.
C7_EmptyChildrenIsLeaf ==
    pc = "done" =>
        /\ WellFormedButEmptyChildren(arg) =>
                result = Return(TreeOf(WithoutEmptyChildren(arg)))
        /\ arg = CellVar(<<>>) =>
                (result.threw /\ ErrorKind(result.what) = "InvalidShapeError")
        /\ \A a \in 1..Len(heap) : Len(heap[a].cells) >= 1

\* a node with an empty children field under a parent, loaded as a leaf
C7_Witness ==
    /\ pc = "done"
    /\ WellFormedButEmptyChildren(arg)
    /\ Len(arg.data) = 1
    /\ "children" \in DOMAIN arg.data[1].data
    /\ Len(arg.data[1].data["children"].data) = 1
    /\ "children" \in DOMAIN arg.data[1].data["children"].data[1].data
    /\ arg.data[1].data["children"].data[1].data["children"] = CellVar(<<>>)
    /\ ~result.threw
    /\ Len(result.value[1].children_node) = 1
    /\ result.value[1].children_node[1].children_node = <<>>

=============================================================================
